---- MODULE Spec2Model ----
(***************************************************************************)
(* A model of package nullable (src/nullable.go): the generic container    *)
(* Nullable[T] = {value T; valid bool}, its constructors, inspectors and   *)
(* its JSON, YAML and database/sql adapters.                               *)
(*                                                                         *)
(* One instance n of Nullable[T] is modelled, for a type parameter T that  *)
(* is fixed in the initial state.  Go values are records that carry their  *)
(* dynamic type; 64-bit integers are kept as four 16-bit limbs (most       *)
(* significant first) so that the 2^63 boundary of convertToDriverValue is *)
(* the real one.                                                           *)
(***************************************************************************)
EXTENDS Integers, Sequences, FiniteSets, TLC

VARIABLES
    T,         \* the type parameter of the instance
    wordSize,  \* the width of Go's int and uint on the build's platform
    value,     \* n.value
    valid,     \* n.valid
    wasValid,  \* n.valid before the operation that ran last
    op,        \* the operation that ran last
    arg,       \* its Go-value argument (NoArg when it has none)
    argDoc,    \* its document argument (JSON bytes, YAML node; NoDoc when none)
    ret,       \* what it returned, and which helpers it consulted
    enc,       \* the last document produced by MarshalJSON / MarshalYAML, and its source
    cell       \* the caller's variable that FromPointer was given the address of

vars == <<T, wordSize, value, valid, wasValid, op, arg, argDoc, ret, enc, cell>>

----------------------------------------------------------------------------
(* Bounds of the explored inputs. *)

\* signed payloads range over -MaxInt .. MaxInt
MaxInt == 1

\* pointees of *int payloads range over 0 .. MaxPointee
MaxPointee == 1

----------------------------------------------------------------------------
(* 64-bit words as limbs. *)

Base == 2^16

Top == 2^15

Z4 == <<0, 0, 0, 0>>

U(k) == <<0, 0, 0, k>>

\* 2^63 - 1, 2^63 and 2^64 - 1
MaxInt64 == <<Top - 1, Base - 1, Base - 1, Base - 1>>

HighBit == <<Top, 0, 0, 0>>

MaxUint64 == <<Base - 1, Base - 1, Base - 1, Base - 1>>

MaxUint32 == <<0, 0, Base - 1, Base - 1>>

\* unsigned comparison a <= b
LimbLE(a, b) ==
    \/ a = b
    \/ \E k \in 1..4 : a[k] < b[k] /\ \A j \in 1..(k - 1) : a[j] = b[j]

\* two's complement negation modulo 2^64
Neg64(a) ==
    LET s4 == (Base - 1 - a[4]) + 1
        s3 == (Base - 1 - a[3]) + (s4 \div Base)
        s2 == (Base - 1 - a[2]) + (s3 \div Base)
        s1 == (Base - 1 - a[1]) + (s2 \div Base)
    IN  <<s1 % Base, s2 % Base, s3 % Base, s4 % Base>>

\* the 64-bit two's complement pattern of a small integer
I64(i) == IF i >= 0 THEN U(i) ELSE Neg64(U(-i))

\* the sign bit of a pattern read as int64
IsNegative(a) == a[1] >= Top

----------------------------------------------------------------------------
(* Go values: a dynamic type t, a nil flag (untyped nil, nil pointer), the  *)
(* numeric content n and the textual content s.                            *)

GV(t, isNil, n, s) == [t |-> t, nil |-> isNil, n |-> n, s |-> s]

NilAny == GV("nil", TRUE, Z4, "")

NoArg == GV("none", TRUE, Z4, "")

Num(t, n) == GV(t, FALSE, n, "")

Str(s) == GV("string", FALSE, Z4, s)

Ptr(i) == GV("*int", FALSE, I64(i), "")

NilPtr == GV("*int", TRUE, Z4, "")

Bool(b) == GV("bool", FALSE, IF b THEN U(1) ELSE Z4, "")

\* float64 values are kept as their IEEE-754 bit pattern; this one is 3.14
Pi == GV("float64", FALSE, <<16393, 7864, 20971, 34079>>, "")

\* reflect.Kind of a dynamic type
Kind(t) ==
    CASE t = "*int" -> "Pointer"
      [] t \in {"int", "int64"} -> "Int"
      [] t \in {"uint", "uint8", "uint32"} -> "Uint"
      [] t = "uint64" -> "Uint64"
      [] t = "float64" -> "Float"
      [] t = "bool" -> "Bool"
      [] t \in {"[]byte", "[]int"} -> "Slice"
      [] t = "string" -> "String"
      [] t \in {"TestStruct", "Unsupported", "time.Time"} -> "Struct"
      [] OTHER -> "Invalid"

\* the bit width of an integer type on this platform
Bits(t, w) ==
    CASE t \in {"int", "uint"} -> w
      [] t = "uint8" -> 8
      [] t = "uint32" -> 32
      [] OTHER -> 64

\* the largest magnitude an integer type holds (negative: its most negative value)
MaxMag(t, w, negative) ==
    LET b == Bits(t, w)
    IN  IF Kind(t) = "Int"
        THEN (IF b = 32
              THEN (IF negative THEN <<0, 0, Top, 0>> ELSE <<0, 0, Top - 1, Base - 1>>)
              ELSE (IF negative THEN HighBit ELSE MaxInt64))
        ELSE (IF negative THEN Z4
              ELSE CASE b = 8 -> U(255)
                     [] b = 32 -> MaxUint32
                     [] OTHER -> MaxUint64)

\* the type parameters the instance is explored for
Types == {"int", "uint8", "uint32", "uint", "uint64", "string", "*int",
          "TestStruct", "Unsupported"}

\* the values of each type that the operations are given
ValuesOf(t, w) ==
    CASE t = "int" -> {Num("int", I64(i)) : i \in (-MaxInt)..MaxInt}
      [] t = "uint8" -> {Num("uint8", Z4), Num("uint8", U(255))}
      [] t = "uint32" -> {Num("uint32", Z4), Num("uint32", MaxUint32)}
      [] t = "uint" -> {Num("uint", Z4), Num("uint", U(21))}
                         \cup (IF w = 64 THEN {Num("uint", HighBit)} ELSE {})
      [] t = "uint64" -> {Num("uint64", Z4), Num("uint64", U(21)), Num("uint64", U(34)),
                          Num("uint64", U(45)), Num("uint64", MaxInt64),
                          Num("uint64", HighBit)}
      [] t = "string" -> {Str(""), Str("Bob"), Str("Alice"), Str("null")}
      [] t = "*int" -> {NilPtr} \cup {Ptr(i) : i \in 0..MaxPointee}
      [] t = "TestStruct" -> {GV("TestStruct", FALSE, Z4, ""),
                              GV("TestStruct", FALSE, Z4, "custom type")}
      [] t = "Unsupported" -> {GV("Unsupported", FALSE, U(i), "") : i \in 0..1}
      [] OTHER -> {}

\* what a database driver hands to Scan besides values of T itself
DriverValues ==
    {NilAny, Num("int64", U(1)), Pi, Str("custom type"),
     GV("[]byte", FALSE, Z4, "Bob"), Bool(TRUE)}

----------------------------------------------------------------------------
(* The pure part of src/nullable.go. *)

\* var zero T
zeroValue(t) ==
    CASE t = "string" -> Str("")
      [] t = "*int" -> NilPtr
      [] OTHER -> GV(t, FALSE, Z4, "")

Nullable(v, ok) == [value |-> v, valid |-> ok]

FromValue(v) == Nullable(v, TRUE)

Null(t) == Nullable(zeroValue(t), FALSE)

\* p is the pointer: NilAny for a nil *T, else the pointee's current content
FromPointerStoresZero(t, p) == Nullable(zeroValue(t), p # NilAny)

FromPointer(t, p) ==
    IF p = NilAny
    THEN Nullable(zeroValue(t), FALSE)
    ELSE Nullable(p, TRUE)

OrElseIgnoresValid(n, defaultVal) == n.value

OrElse(n, defaultVal) == IF n.valid THEN n.value ELSE defaultVal

GetValue(n) == n.value

IsNull(n) == ~n.valid

HasValue(n) == n.valid

----------------------------------------------------------------------------
(* database/sql: Scan and Value. *)

NoErr == "nil"

ErrUnsupportedConversion == "unsupported type conversion"

\* TestStruct.Scan of the tests: a type with its own sql.Scanner;
\* field is the receiver's Field before the call
TestStructScan(field, x) ==
    IF x.t = "string" /\ ~x.nil
    THEN [field |-> x.s, err |-> NoErr]
    ELSE [field |-> field, err |-> "failed to scan TestStruct"]

\* TestStruct.Value of the tests
TestStructValue(v) == [v |-> Str(v.s), err |-> NoErr]

\* any(&n.value).(sql.Scanner) succeeds
HasScanner(t) == t = "TestStruct"

\* any(v).(driver.Valuer) succeeds
HasValuer(v) == v.t = "TestStruct"

convertToTypeLoose(t, x) ==
    IF x = NilAny
    THEN [v |-> zeroValue(t), err |-> NoErr]
    ELSE IF x.t = t \/ (Kind(x.t) \in {"Int", "Float"} /\ Kind(t) = "Int")
         THEN [v |-> GV(t, x.nil, x.n, x.s), err |-> NoErr]
         ELSE [v |-> zeroValue(t), err |-> ErrUnsupportedConversion]

convertToType(t, x) ==
    IF x = NilAny
    THEN [v |-> zeroValue(t), err |-> NoErr]
    ELSE IF x.t = t
         THEN [v |-> x, err |-> NoErr]
         ELSE [v |-> zeroValue(t), err |-> ErrUnsupportedConversion]

Scanned(v, ok, err, hook, conv) ==
    [value |-> v, valid |-> ok, err |-> err, hook |-> hook, conv |-> conv]

\* the hook is tried only after strict coercion has failed
ScanCoercesFirst(n, x) ==
    IF x = NilAny
    THEN Scanned(zeroValue(n.value.t), FALSE, NoErr, FALSE, FALSE)
    ELSE IF convertToType(n.value.t, x).err = NoErr
         THEN Scanned(x, TRUE, NoErr, FALSE, TRUE)
         ELSE IF HasScanner(n.value.t)
              THEN LET r == TestStructScan(n.value.s, x)
                   IN  Scanned(GV(n.value.t, FALSE, n.value.n, r.field),
                               r.err = NoErr, r.err, TRUE, TRUE)
              ELSE Scanned(zeroValue(n.value.t), FALSE, ErrUnsupportedConversion,
                           FALSE, TRUE)

\* (n *Nullable[T]) Scan(value any): the instance afterwards, the error
\* returned, and whether T's own Scan (hook) and convertToType (conv) ran
Scan(n, x) ==
    IF x = NilAny
    THEN Scanned(zeroValue(n.value.t), FALSE, NoErr, FALSE, FALSE)
    ELSE IF HasScanner(n.value.t)
         THEN LET r == TestStructScan(n.value.s, x)
              IN  Scanned(GV(n.value.t, FALSE, n.value.n, r.field),
                          r.err = NoErr, r.err, TRUE, FALSE)
         ELSE LET c == convertToType(n.value.t, x)
              IN  Scanned(c.v, c.err = NoErr, c.err, FALSE, TRUE)

DV(v, err) == [v |-> v, err |-> err]

RECURSIVE convertToDriverValue(_)
convertToDriverValue(v) ==
    IF HasValuer(v)
    THEN TestStructValue(v)
    ELSE CASE Kind(v.t) = "Pointer" ->
                IF v.nil
                THEN DV(NilAny, NoErr)
                ELSE convertToDriverValue(GV("int", FALSE, v.n, ""))
           [] Kind(v.t) = "Int" -> DV(Num("int64", v.n), NoErr)
           [] Kind(v.t) = "Uint" -> DV(Num("int64", v.n), NoErr)
           [] Kind(v.t) = "Uint64" ->
                IF LimbLE(HighBit, v.n)
                THEN DV(NilAny, "uint64 values with high bit set are not supported")
                ELSE DV(Num("int64", v.n), NoErr)
           [] Kind(v.t) = "Float" -> DV(Num("float64", v.n), NoErr)
           [] Kind(v.t) = "Bool" -> DV(Num("bool", v.n), NoErr)
           [] Kind(v.t) = "Slice" ->
                IF v.t = "[]byte"
                THEN DV(v, NoErr)
                ELSE DV(NilAny, "unsupported slice type")
           [] Kind(v.t) = "String" -> DV(Str(v.s), NoErr)
           [] Kind(v.t) = "Struct" ->
                IF v.t = "time.Time"
                THEN DV(v, NoErr)
                ELSE DV(NilAny, "unsupported struct type")
           [] OTHER -> DV(NilAny, "unsupported type")

Valued(v, err, hook, conv) == [v |-> v, err |-> err, hook |-> hook, conv |-> conv]

\* the presence check is missing
ValueIgnoresValid(n) ==
    IF HasValuer(n.value)
    THEN LET r == TestStructValue(n.value) IN Valued(r.v, r.err, TRUE, FALSE)
    ELSE LET r == convertToDriverValue(n.value) IN Valued(r.v, r.err, FALSE, TRUE)

\* (n Nullable[T]) Value(): the driver value, the error, and whether the
\* payload's own Value (hook) and convertToDriverValue (conv) ran
Value(n) ==
    IF ~n.valid
    THEN Valued(NilAny, NoErr, FALSE, FALSE)
    ELSE IF HasValuer(n.value)
         THEN LET r == TestStructValue(n.value) IN Valued(r.v, r.err, TRUE, FALSE)
         ELSE LET r == convertToDriverValue(n.value) IN Valued(r.v, r.err, FALSE, TRUE)

----------------------------------------------------------------------------
(* Documents.  A JSON text or a YAML scalar/mapping node is kept as the     *)
(* token it lexes to: its kind k, its number (sign neg, magnitude mag), its *)
(* string s, the key of a one-member object, and two lexical marks: ws      *)
(* (JSON: blanks around the token, so the bytes are not exactly the token)  *)
(* and q (YAML: the scalar is written in quotes).                           *)

Doc(k, neg, mag, s, key) ==
    [k |-> k, ws |-> FALSE, q |-> FALSE, neg |-> neg, mag |-> mag, s |-> s, key |-> key]

NoDoc == Doc("none", FALSE, Z4, "", "")

NullDoc == Doc("null", FALSE, Z4, "", "")

BadDoc == Doc("bad", FALSE, Z4, "", "")

NumDoc(neg, mag) == Doc("num", neg, mag, "", "")

StrDoc(s) == Doc("str", FALSE, Z4, s, "")

Padded(d) == [d EXCEPT !.ws = TRUE]

Quoted(d) == [d EXCEPT !.q = TRUE]

\* a number token read into an integer type, as strconv does for the decoders
ParseInt(t, w, d) ==
    IF d.k # "num" \/ ~LimbLE(d.mag, MaxMag(t, w, d.neg))
    THEN [v |-> zeroValue(t), err |-> "cannot unmarshal into Go value"]
    ELSE [v |-> Num(t, IF d.neg THEN Neg64(d.mag) ELSE d.mag), err |-> NoErr]

\* an integer payload written as a number token
FormatInt(v) ==
    IF Kind(v.t) = "Int" /\ IsNegative(v.n)
    THEN NumDoc(TRUE, Neg64(v.n))
    ELSE NumDoc(FALSE, v.n)

\* encoding/json.Marshal, as MarshalJSON calls it
jsonMarshal(v) ==
    CASE v = NilAny -> NullDoc
      [] Kind(v.t) = "Pointer" ->
           IF v.nil THEN NullDoc ELSE FormatInt(GV("int", FALSE, v.n, ""))
      [] Kind(v.t) \in {"Int", "Uint", "Uint64"} -> FormatInt(v)
      [] Kind(v.t) = "String" -> StrDoc(v.s)
      [] v.t = "TestStruct" -> Doc("obj", FALSE, Z4, v.s, "Field")
      [] v.t = "Unsupported" -> Doc("obj", FALSE, v.n, "", "A")
      [] OTHER -> BadDoc

\* encoding/json.Unmarshal(data, &value) into a fresh var value T
jsonUnmarshal(t, w, d) ==
    CASE d.k = "bad" -> [v |-> zeroValue(t), err |-> "invalid character"]
      [] d.k = "null" -> [v |-> zeroValue(t), err |-> NoErr]
      [] Kind(t) = "Pointer" ->
           LET r == ParseInt("int", w, d)
           IN  [v |-> IF r.err = NoErr THEN GV(t, FALSE, r.v.n, "") ELSE zeroValue(t),
                err |-> r.err]
      [] Kind(t) \in {"Int", "Uint", "Uint64"} -> ParseInt(t, w, d)
      [] Kind(t) = "String" ->
           IF d.k = "str"
           THEN [v |-> Str(d.s), err |-> NoErr]
           ELSE [v |-> zeroValue(t), err |-> "cannot unmarshal into Go value"]
      [] Kind(t) = "Struct" ->
           IF d.k # "obj"
           THEN [v |-> zeroValue(t), err |-> "cannot unmarshal into Go value"]
           ELSE IF t = "TestStruct" /\ d.key = "Field"
                THEN [v |-> GV(t, FALSE, Z4, d.s), err |-> NoErr]
                ELSE IF t = "Unsupported" /\ d.key = "A"
                     THEN [v |-> GV(t, FALSE, d.mag, ""), err |-> NoErr]
                     ELSE [v |-> zeroValue(t), err |-> NoErr]
      [] OTHER -> [v |-> zeroValue(t), err |-> "cannot unmarshal into Go value"]

Decoded(v, ok, err) == [value |-> v, valid |-> ok, err |-> err]

\* the null token is handed to the decoder like any other
UnmarshalJSONNoNull(n, w, data) ==
    LET r == jsonUnmarshal(n.value.t, w, data)
    IN  IF r.err # NoErr
        THEN Decoded(n.value, FALSE, r.err)
        ELSE Decoded(r.v, TRUE, NoErr)

\* (n *Nullable[T]) UnmarshalJSON(data []byte)
UnmarshalJSON(n, w, data) ==
    IF data = NullDoc
    THEN Decoded(zeroValue(n.value.t), FALSE, NoErr)
    ELSE LET r == jsonUnmarshal(n.value.t, w, data)
         IN  IF r.err # NoErr
             THEN Decoded(n.value, FALSE, r.err)
             ELSE Decoded(r.v, TRUE, NoErr)

\* (n Nullable[T]) MarshalJSON()
MarshalJSON(n) == IF ~n.valid THEN jsonMarshal(NilAny) ELSE jsonMarshal(n.value)

\* the text of a number token, which yaml keeps when the target is a string
Decimal(d) ==
    LET digits == IF d.mag[1] = 0 /\ d.mag[2] = 0 /\ d.mag[3] = 0
                  THEN ToString(d.mag[4])
                  ELSE CASE d.mag = MaxUint32 -> "4294967295"
                         [] d.mag = MaxInt64 -> "9223372036854775807"
                         [] d.mag = HighBit -> "9223372036854775808"
                         [] OTHER -> "18446744073709551615"
    IN  IF d.neg THEN "-" \o digits ELSE digits

\* the words a YAML plain scalar resolves to null for
YamlNullWords == {"null", "Null", "NULL", "~"}

\* yaml.Marshal of what MarshalYAML returned
yamlMarshal(v) ==
    CASE v = NilAny -> NullDoc
      [] Kind(v.t) = "Pointer" ->
           IF v.nil THEN NullDoc ELSE FormatInt(GV("int", FALSE, v.n, ""))
      [] Kind(v.t) \in {"Int", "Uint", "Uint64"} -> FormatInt(v)
      [] Kind(v.t) = "String" ->
           IF v.s = "" \/ v.s \in YamlNullWords THEN Quoted(StrDoc(v.s)) ELSE StrDoc(v.s)
      [] v.t = "TestStruct" -> Doc("map", FALSE, Z4, v.s, "field")
      [] v.t = "Unsupported" -> Doc("map", FALSE, v.n, "", "a")
      [] OTHER -> BadDoc

\* the unmarshal callback yaml hands to UnmarshalYAML, called with &value for
\* var value *T: p is NilAny when value stays nil, else what it points to
yamlUnmarshal(t, w, d) ==
    CASE d.k = "bad" -> [p |-> NilAny, err |-> "yaml: unmarshal errors"]
      [] d.k = "null" -> [p |-> NilAny, err |-> NoErr]
      [] Kind(t) = "Pointer" ->
           LET r == ParseInt("int", w, d)
           IN  [p |-> IF r.err = NoErr THEN GV(t, FALSE, r.v.n, "") ELSE NilAny,
                err |-> IF r.err = NoErr THEN NoErr ELSE "yaml: unmarshal errors"]
      [] Kind(t) \in {"Int", "Uint", "Uint64"} ->
           LET r == ParseInt(t, w, d)
           IN  [p |-> IF r.err = NoErr THEN r.v ELSE NilAny,
                err |-> IF r.err = NoErr THEN NoErr ELSE "yaml: unmarshal errors"]
      [] Kind(t) = "String" /\ d.k = "str" -> [p |-> Str(d.s), err |-> NoErr]
      [] Kind(t) = "String" /\ d.k = "num" -> [p |-> Str(Decimal(d)), err |-> NoErr]
      [] Kind(t) = "Struct" /\ d.k = "map" ->
           IF t = "TestStruct" /\ d.key = "field"
           THEN [p |-> GV(t, FALSE, Z4, d.s), err |-> NoErr]
           ELSE IF t = "Unsupported" /\ d.key = "a"
                THEN [p |-> GV(t, FALSE, d.mag, ""), err |-> NoErr]
                ELSE [p |-> zeroValue(t), err |-> NoErr]
      [] OTHER -> [p |-> NilAny, err |-> "yaml: unmarshal errors"]

\* a failing callback keeps the presence it found
UnmarshalYAMLKeepsValid(n, r) ==
    IF r.err # NoErr
    THEN Decoded(n.value, n.valid, r.err)
    ELSE IF r.p = NilAny
         THEN Decoded(zeroValue(n.value.t), FALSE, NoErr)
         ELSE Decoded(r.p, TRUE, NoErr)

\* the probe is a T, not a *T: a null document leaves it at its zero value
UnmarshalYAMLNoProbe(n, r) ==
    IF r.err # NoErr
    THEN Decoded(n.value, FALSE, r.err)
    ELSE IF r.p = NilAny
         THEN Decoded(zeroValue(n.value.t), TRUE, NoErr)
         ELSE Decoded(r.p, TRUE, NoErr)

\* (n *Nullable[T]) UnmarshalYAML(unmarshal func(any) error): r is what the
\* callback did with &value
UnmarshalYAML(n, r) ==
    IF r.err # NoErr
    THEN Decoded(n.value, FALSE, r.err)
    ELSE IF r.p = NilAny
         THEN Decoded(zeroValue(n.value.t), FALSE, NoErr)
         ELSE Decoded(r.p, TRUE, NoErr)

\* (n Nullable[T]) MarshalYAML()
MarshalYAML(n) == IF ~n.valid THEN NilAny ELSE n.value

----------------------------------------------------------------------------
(* The state machine: one instance n, and the calls a program makes on it. *)

n == Nullable(value, valid)

Ret(v, err, doc, hook, conv) ==
    [v |-> v, err |-> err, doc |-> doc, hook |-> hook, conv |-> conv]

NoRet == Ret(NoArg, NoErr, NoDoc, FALSE, FALSE)

NoEnc == [fmt |-> "none", doc |-> NoDoc, src |-> Nullable(NoArg, FALSE)]

\* the caller's variable: its content now, and its content when FromPointer
\* copied it into the instance (NoArg once the instance has been overwritten)
Cell(now, taken) == [now |-> now, taken |-> taken]

Forget(c) == Cell(c.now, NoArg)

\* the JSON texts UnmarshalJSON is given besides a text MarshalJSON produced
JSONInputs ==
    {NullDoc, Padded(NullDoc), BadDoc, NumDoc(FALSE, U(1)), NumDoc(TRUE, U(1)),
     NumDoc(FALSE, HighBit), StrDoc("Bob"), StrDoc("null"),
     Doc("obj", FALSE, Z4, "custom type", "Field"), Doc("obj", FALSE, U(1), "", "A")}

\* the YAML nodes UnmarshalYAML's callback reads besides a rendered MarshalYAML result
YAMLInputs ==
    {NullDoc, BadDoc, NumDoc(FALSE, U(21)), NumDoc(TRUE, U(1)), StrDoc("Bob"),
     Quoted(StrDoc("")), Quoted(StrDoc("null")),
     Doc("map", FALSE, Z4, "custom type", "field"), Doc("map", FALSE, U(1), "", "a")}

Init ==
    /\ T \in Types
    /\ wordSize \in (IF T \in {"int", "uint"} THEN {32, 64} ELSE {64})
    /\ \E v \in ValuesOf(T, wordSize) : cell = Cell(v, NoArg)
    /\ value = zeroValue(T)
    /\ valid = FALSE
    /\ wasValid = FALSE
    /\ op = "var"
    /\ arg = NoArg
    /\ argDoc = NoDoc
    /\ ret = NoRet
    /\ enc = NoEnc

\* n = FromValue(v)
CallFromValue ==
    \E v \in ValuesOf(T, wordSize) :
        /\ value' = FromValue(v).value
        /\ valid' = FromValue(v).valid
        /\ op' = "FromValue"
        /\ wasValid' = valid
        /\ arg' = v
        /\ argDoc' = NoDoc
        /\ ret' = NoRet
        /\ cell' = Forget(cell)
        /\ UNCHANGED <<T, wordSize, enc>>

\* n = Null[T]()
CallNull ==
    /\ value' = Null(T).value
    /\ valid' = Null(T).valid
    /\ op' = "Null"
    /\ wasValid' = valid
    /\ arg' = NoArg
    /\ argDoc' = NoDoc
    /\ ret' = NoRet
    /\ cell' = Forget(cell)
    /\ UNCHANGED <<T, wordSize, enc>>

\* n = FromPointer(p), p nil or the address of the caller's variable
CallFromPointer ==
    \E p \in {NilAny, cell.now} :
        /\ value' = FromPointer(T, p).value
        /\ valid' = FromPointer(T, p).valid
        /\ op' = "FromPointer"
        /\ wasValid' = valid
        /\ arg' = p
        /\ argDoc' = NoDoc
        /\ ret' = NoRet
        /\ cell' = Cell(cell.now, p)
        /\ UNCHANGED <<T, wordSize, enc>>

\* the caller assigns to its variable after the instance was built from it
WriteReferent ==
    \E v \in ValuesOf(T, wordSize) :
        /\ v # cell.now
        /\ cell' = Cell(v, cell.taken)
        /\ op' = "WriteReferent"
        /\ wasValid' = valid
        /\ arg' = v
        /\ argDoc' = NoDoc
        /\ ret' = NoRet
        /\ UNCHANGED <<T, wordSize, value, valid, enc>>

CallOrElse ==
    \E d \in ValuesOf(T, wordSize) :
        /\ op' = "OrElse"
        /\ wasValid' = valid
        /\ arg' = d
        /\ argDoc' = NoDoc
        /\ ret' = Ret(OrElse(n, d), NoErr, NoDoc, FALSE, FALSE)
        /\ UNCHANGED <<T, wordSize, value, valid, enc, cell>>

CallGetValue ==
    /\ op' = "GetValue"
    /\ wasValid' = valid
    /\ arg' = NoArg
    /\ argDoc' = NoDoc
    /\ ret' = Ret(GetValue(n), NoErr, NoDoc, FALSE, FALSE)
    /\ UNCHANGED <<T, wordSize, value, valid, enc, cell>>

CallIsNull ==
    /\ op' = "IsNull"
    /\ wasValid' = valid
    /\ arg' = NoArg
    /\ argDoc' = NoDoc
    /\ ret' = Ret(Bool(IsNull(n)), NoErr, NoDoc, FALSE, FALSE)
    /\ UNCHANGED <<T, wordSize, value, valid, enc, cell>>

CallHasValue ==
    /\ op' = "HasValue"
    /\ wasValid' = valid
    /\ arg' = NoArg
    /\ argDoc' = NoDoc
    /\ ret' = Ret(Bool(HasValue(n)), NoErr, NoDoc, FALSE, FALSE)
    /\ UNCHANGED <<T, wordSize, value, valid, enc, cell>>

CallScan ==
    \E x \in DriverValues \cup ValuesOf(T, wordSize) :
        LET r == Scan(n, x)
        IN  /\ value' = r.value
            /\ valid' = r.valid
            /\ op' = "Scan"
            /\ wasValid' = valid
            /\ arg' = x
            /\ argDoc' = NoDoc
            /\ ret' = Ret(NoArg, r.err, NoDoc, r.hook, r.conv)
            /\ cell' = Forget(cell)
            /\ UNCHANGED <<T, wordSize, enc>>

CallValue ==
    LET r == Value(n)
    IN  /\ op' = "Value"
        /\ wasValid' = valid
        /\ arg' = NoArg
        /\ argDoc' = NoDoc
        /\ ret' = Ret(r.v, r.err, NoDoc, r.hook, r.conv)
        /\ UNCHANGED <<T, wordSize, value, valid, enc, cell>>

CallMarshalJSON ==
    /\ op' = "MarshalJSON"
    /\ wasValid' = valid
    /\ arg' = NoArg
    /\ argDoc' = NoDoc
    /\ ret' = Ret(NoArg, NoErr, MarshalJSON(n), FALSE, FALSE)
    /\ enc' = [fmt |-> "json", doc |-> MarshalJSON(n), src |-> n]
    /\ UNCHANGED <<T, wordSize, value, valid, cell>>

CallUnmarshalJSON ==
    \E data \in JSONInputs \cup (IF enc.fmt = "json" THEN {enc.doc} ELSE {}) :
        LET r == UnmarshalJSON(n, wordSize, data)
        IN  /\ value' = r.value
            /\ valid' = r.valid
            /\ op' = "UnmarshalJSON"
            /\ wasValid' = valid
            /\ arg' = NoArg
            /\ argDoc' = data
            /\ ret' = Ret(NoArg, r.err, NoDoc, FALSE, FALSE)
            /\ cell' = Forget(cell)
            /\ UNCHANGED <<T, wordSize, enc>>

\* yaml.Marshal(n): MarshalYAML, and the rendering of what it returned
CallMarshalYAML ==
    /\ op' = "MarshalYAML"
    /\ wasValid' = valid
    /\ arg' = NoArg
    /\ argDoc' = NoDoc
    /\ ret' = Ret(MarshalYAML(n), NoErr, yamlMarshal(MarshalYAML(n)), FALSE, FALSE)
    /\ enc' = [fmt |-> "yaml", doc |-> yamlMarshal(MarshalYAML(n)), src |-> n]
    /\ UNCHANGED <<T, wordSize, value, valid, cell>>

\* UnmarshalYAML with the callback of a decoder that stands on node
CallUnmarshalYAML ==
    \E node \in YAMLInputs \cup (IF enc.fmt = "yaml" THEN {enc.doc} ELSE {}) :
        LET r == UnmarshalYAML(n, yamlUnmarshal(T, wordSize, node))
        IN  /\ value' = r.value
            /\ valid' = r.valid
            /\ op' = "UnmarshalYAML"
            /\ wasValid' = valid
            /\ arg' = NoArg
            /\ argDoc' = node
            /\ ret' = Ret(NoArg, r.err, NoDoc, FALSE, FALSE)
            /\ cell' = Forget(cell)
            /\ UNCHANGED <<T, wordSize, enc>>

Next ==
    \/ CallFromValue
    \/ CallNull
    \/ CallFromPointer
    \/ WriteReferent
    \/ CallOrElse
    \/ CallGetValue
    \/ CallIsNull
    \/ CallHasValue
    \/ CallScan
    \/ CallValue
    \/ CallMarshalJSON
    \/ CallUnmarshalJSON
    \/ CallMarshalYAML
    \/ CallUnmarshalYAML

Spec == Init /\ [][Next]_vars

----------------------------------------------------------------------------
(* The claims. *)

\* C1: in every reachable state an absent instance holds the zero value of T:
\* present == false implies payload == zero(T).
C1_AbsentHoldsZero == ~valid => value = zeroValue(T)

\* the inputs on which each mutating adapter fails
JSONFails == argDoc # NullDoc /\ jsonUnmarshal(T, wordSize, argDoc).err # NoErr

YAMLFails == yamlUnmarshal(T, wordSize, argDoc).err # NoErr

ScanFails ==
    /\ arg # NilAny
    /\ IF HasScanner(T)
       THEN TestStructScan("", arg).err # NoErr
       ELSE convertToType(T, arg).err # NoErr

\* C2: when UnmarshalJSON, UnmarshalYAML or Scan fails, the call returns a
\* non-nil error and the instance is absent afterwards (HasValue false, IsNull
\* true), whatever its presence was before the call.
C2_FailureMakesAbsent ==
    (\/ op = "UnmarshalJSON" /\ JSONFails
     \/ op = "UnmarshalYAML" /\ YAMLFails
     \/ op = "Scan" /\ ScanFails)
        => ret.err # NoErr /\ ~HasValue(n) /\ IsNull(n)

C2_Witness ==
    /\ op = "UnmarshalYAML"
    /\ YAMLFails
    /\ wasValid
    /\ ret.err # NoErr
    /\ ~valid

\* the last call decoded the text that MarshalJSON produced from enc.src
JSONRoundTrip == op = "UnmarshalJSON" /\ enc.fmt = "json" /\ argDoc = enc.doc

\* C3 as stated: UnmarshalJSON(MarshalJSON(x)) equals x in presence and in
\* payload for every x, a present nil pointer included.
C3_JSONRoundTripExact ==
    JSONRoundTrip => valid = enc.src.valid /\ value = enc.src.value

\* C3 amended: UnmarshalJSON(MarshalJSON(x)) is present with x's payload when x
\* is present and its payload does not encode to the null token; in every
\* other case (x absent, or x present with a nil pointer) it is absent with the
\* zero payload.
C3_JSONRoundTripUnlessNull ==
    JSONRoundTrip =>
        IF enc.src.valid /\ enc.doc # NullDoc
        THEN valid /\ value = enc.src.value
        ELSE ~valid /\ value = zeroValue(T)

C3_Witness ==
    /\ JSONRoundTrip
    /\ enc.src = Nullable(NilPtr, TRUE)
    /\ wasValid
    /\ ~valid

\* the last call decoded the node that yaml rendered from MarshalYAML of enc.src
YAMLRoundTrip == op = "UnmarshalYAML" /\ enc.fmt = "yaml" /\ argDoc = enc.doc

\* MarshalYAML returns nil for an absent instance and the bare payload for a
\* present one; a present empty string does not render as null
YAMLRendering ==
    /\ op = "MarshalYAML" => ret.v = (IF valid THEN value ELSE NilAny)
    /\ enc.fmt = "yaml" /\ enc.src = Nullable(Str(""), TRUE) => enc.doc # NullDoc

\* C4 as stated: MarshalYAML renders absent as null and present as the bare
\* payload, and UnmarshalYAML of that output reproduces the same (present,
\* payload) pair.
C4_YAMLRoundTripExact ==
    /\ YAMLRendering
    /\ YAMLRoundTrip => valid = enc.src.valid /\ value = enc.src.value

\* C4 amended: the rendering is as stated, and UnmarshalYAML of the output is
\* present with x's payload when x is present and does not render as null; in
\* every other case (x absent, or x present with a nil pointer) it is absent
\* with the zero payload.
C4_YAMLRoundTripUnlessNull ==
    /\ YAMLRendering
    /\ YAMLRoundTrip =>
        IF enc.src.valid /\ enc.doc # NullDoc
        THEN valid /\ value = enc.src.value
        ELSE ~valid /\ value = zeroValue(T)

C4_Witness ==
    /\ YAMLRoundTrip
    /\ enc.src = Nullable(Str(""), TRUE)
    /\ valid
    /\ value = Str("")

\* C5: for a T without a scan hook and a non-nil driver value x, Scan(x)
\* succeeds iff the dynamic type of x is exactly T: then the instance is
\* present with payload x; otherwise Scan returns ErrUnsupportedConversion and
\* the instance is absent with the zero payload, whatever it held before.
C5_StrictScan ==
    op = "Scan" /\ ~HasScanner(T) /\ arg # NilAny =>
        IF arg.t = T
        THEN ret.err = NoErr /\ valid /\ value = arg
        ELSE ret.err = ErrUnsupportedConversion /\ ~valid /\ value = zeroValue(T)

C5_Witness ==
    /\ op = "Scan"
    /\ T = "int"
    /\ arg = Pi
    /\ wasValid
    /\ ret.err = ErrUnsupportedConversion
    /\ ~valid

\* C6: Value() on an absent instance returns (nil, no error) without consulting
\* the payload: neither its own Value hook nor the shape table is used.
C6_AbsentValueIsNil ==
    op = "Value" /\ ~valid =>
        ret.v = NilAny /\ ret.err = NoErr /\ ~ret.hook /\ ~ret.conv

C6_Witness ==
    /\ op = "Value"
    /\ ~valid
    /\ T = "Unsupported"
    /\ value # zeroValue(T)
    /\ ret.v = NilAny

\* C7: Value() on a present unsigned payload returns the int64 numerically
\* equal to it when it is below 2^63, returns an error with a nil driver value
\* for a uint64 at or above 2^63, and never returns a negative integer.
C7_UnsignedValue ==
    op = "Value" /\ valid /\ Kind(T) \in {"Uint", "Uint64"} =>
        /\ ~LimbLE(HighBit, value.n) => ret.err = NoErr /\ ret.v = Num("int64", value.n)
        /\ T = "uint64" /\ LimbLE(HighBit, value.n) => ret.err # NoErr /\ ret.v = NilAny
        /\ ~(ret.v.t = "int64" /\ IsNegative(ret.v.n))

\* C8: FromPointer(nil) is absent with the zero payload; FromPointer(&v) is
\* present with v's content at that time, and later writes to v leave what
\* GetValue and OrElse return unchanged.
C8_FromPointerCopies ==
    /\ op = "FromPointer" =>
        IF arg = NilAny
        THEN IsNull(n) /\ value = zeroValue(T)
        ELSE HasValue(n) /\ value = arg
    /\ cell.taken \notin {NoArg, NilAny} =>
        /\ GetValue(n) = cell.taken
        /\ \A d \in ValuesOf(T, wordSize) : OrElse(n, d) = cell.taken
    /\ cell.taken \notin {NoArg, NilAny} /\ op \in {"GetValue", "OrElse"} =>
        ret.v = cell.taken

C8_Witness ==
    /\ cell.taken \notin {NoArg, NilAny}
    /\ cell.now # cell.taken
    /\ op = "GetValue"
    /\ ret.v = cell.taken

\* C9: OrElse(d) returns the payload when the instance is present (also when
\* the payload is the zero value) and d when it is absent, and changes neither
\* the payload nor the presence.
C9_OrElse ==
    [][op' = "OrElse" =>
        /\ ret'.v = (IF valid THEN value ELSE arg')
        /\ value' = value
        /\ valid' = valid]_vars

C9_Witness ==
    /\ op = "OrElse"
    /\ valid
    /\ value = zeroValue(T)
    /\ arg # value
    /\ ret.v = value

\* C10: Scan decides in a fixed order: nil makes the instance absent with the
\* zero payload and no error, without T's hook; otherwise a T with a hook is
\* scanned by the hook alone (present on success; absent with the hook's own
\* error on failure), even for a value of type T; strict coercion runs only
\* when T has no hook.
C10_ScanOrder ==
    op = "Scan" =>
        /\ arg = NilAny =>
            ~valid /\ value = zeroValue(T) /\ ret.err = NoErr /\ ~ret.hook /\ ~ret.conv
        /\ arg # NilAny /\ HasScanner(T) =>
            /\ ret.hook
            /\ ~ret.conv
            /\ ret.err = TestStructScan("", arg).err
            /\ valid = (ret.err = NoErr)
        /\ arg # NilAny /\ ~HasScanner(T) => ret.conv /\ ~ret.hook

C10_Witness ==
    /\ op = "Scan"
    /\ T = "TestStruct"
    /\ arg.t = "TestStruct"
    /\ wasValid
    /\ ret.hook
    /\ ret.err = "failed to scan TestStruct"
    /\ ~valid

====
